---- MODULE Spec2Model ----
(***************************************************************************)
(* A model of the commit-sampling, batch-retrieval and import-extraction   *)
(* engine of the repository:                                               *)
(*   - the periodic sampler of extractor_monthly.py                        *)
(*     (list_monthly_latest_commits, list_weekly_latest_commits),          *)
(*   - the batch retrieval layer and the commits loop of                   *)
(*     gh_trilingual_combined.py (get_all_commit_data, commit_header,      *)
(*     parse_numstat, parse_name_status, main),                            *)
(*   - analyze_commit of extractor_monthly.py and extractor_trilingual.py. *)
(* Each part has its own specification over the shared variables; the      *)
(* variables of the other parts stay at their idle values.                 *)
(***************************************************************************)
EXTENDS Integers, Sequences, FiniteSets, TLC

VARIABLES
    \* ---- periodic sampler (extractor_monthly.py) ----
    mode,           \* "weekly" | "monthly": which sampler runs
    log_out,        \* the lines of the git log output, in the order git printed them
    pos,            \* index of the next line of log_out the for loop reads
    latest_by_key,  \* latest_by_month / latest_by_week: insertion-ordered dict, as a
                    \* sequence of [key, sha] entries
    spc,            \* "scan" | "done" | "raised" | "idle"
    selected,       \* the returned list (list(latest_by_*.values()))
    \* ---- batch retrieval and the commits loop (gh_trilingual_combined.py) ----
    repo,           \* the commits of the repository, in traversal order: what git answers from
    bpc,            \* "batch" | "numstat" | "status" | "loop" | "done" | "failed" | "idle"
    result,         \* get_all_commit_data: result, a dict keyed by the sha string
    current_sha,    \* current_sha of the pass that is running (None: the empty string)
    sha_numstat,    \* sha_numstat: sha -> (filename -> <<adds, dels>>)
    pass_lines,     \* the list the running pass iterates: <bulk output>.splitlines()
    bpos,           \* index of the next line of the pass, or of the next commit of the loop
    individual_calls, \* main: the fallback counter
    commits_rows,   \* main: the rows appended for this repository
    queries,        \* the single-commit git invocations issued so far, <<command, sha>>
    \* ---- analyze_commit (extractor_monthly.py, extractor_trilingual.py) ----
    variant,        \* "monthly" | "trilingual": whose analyze_commit runs
    tree,           \* the commit as git holds it: what the file and content queries answer from
    files,          \* files / commit_info['files']: the listed paths
    fidx,           \* index of the next path the for loop reads
    typescript_imports,  \* path -> list of specifiers
    javascript_imports,  \* path -> list of specifiers
    swift_imports,       \* path -> list of specifiers
    fetches,        \* the paths whose content was requested, in request order
    apc,            \* "list" | "files" | "done" | "norecord" | "raised" | "idle"
    run_no,         \* 1 | 2: which run of analyze_commit on the same commit this is
    first_run,      \* the three mappings the first run returned (<<>> before it returns)
    \* ---- analyze_commits / analyze_all_commits and the writing of the output ----
    agg,            \* "monthly" | "trilingual": whose aggregator runs
    history,        \* the commits of the repository, in the order the traversal emits them
    selected_commits, \* the commit identifiers the aggregator loops over
    cidx,           \* index of the next commit the for loop reads
    results,        \* results: the records appended so far
    output,         \* the documents written to the output file, in writing order
    gpc,            \* "select" | "loop" | "save" | "done" | "crashed" | "idle"
    \* ---- one version-control query through an accessor ----
    accessor,       \* "monthly_run" | "combined_run" | "get_commit_info"
    proc,           \* the finished process: returncode, stdout, stderr
    outcome,        \* what the accessor did: returned a value or raised
    qpc,            \* "call" | "done" | "idle"
    \* ---- a run over the repositories of the organisation ----
    script,         \* "wrapper" | "combined": which script runs
    repos,          \* org.get_repos(): the repositories, in the order of the enumeration
    ridx,           \* index of the next repository the for loop reads
    attempted,      \* the <<loop, repository>> pairs whose processing was started
    reported,       \* the <<loop, repository>> pairs whose failure was printed
    mpc             \* "children" | "commits" | "deps" | "done" | "crashed" | "idle"

sampler_vars == <<mode, log_out, pos, latest_by_key, spc, selected>>

batch_vars == <<repo, bpc, result, current_sha, sha_numstat, pass_lines, bpos,
                individual_calls, commits_rows, queries>>

analyze_vars == <<variant, tree, files, fidx, typescript_imports, javascript_imports,
                  swift_imports, fetches, apc>>

rerun_vars == <<run_no, first_run>>

aggregate_vars == <<agg, history, selected_commits, cidx, results, output, gpc>>

query_vars == <<accessor, proc, outcome, qpc>>

multi_vars == <<script, repos, ridx, attempted, reported, mpc>>

vars == <<sampler_vars, batch_vars, analyze_vars, rerun_vars, aggregate_vars, query_vars,
          multi_vars>>

\* what an action of one part leaves alone
outside_sampler == <<batch_vars, analyze_vars, rerun_vars, aggregate_vars, query_vars,
    multi_vars>>
outside_batch == <<sampler_vars, analyze_vars, rerun_vars, aggregate_vars, query_vars,
    multi_vars>>
outside_analyze == <<sampler_vars, batch_vars, rerun_vars, aggregate_vars, query_vars,
    multi_vars>>
outside_aggregate == <<sampler_vars, batch_vars, analyze_vars, rerun_vars, query_vars,
    multi_vars>>
outside_query == <<sampler_vars, batch_vars, analyze_vars, rerun_vars, aggregate_vars,
                   multi_vars>>
outside_multi == <<sampler_vars, batch_vars, analyze_vars, rerun_vars, aggregate_vars,
                   query_vars>>

(***************************************************************************)
(* Bounds of the model                                                     *)
(***************************************************************************)
MaxLog == 3        \* longest git log output the sampler is given (lines)

(***************************************************************************)
(* Authorship timestamps, as git prints them with --date=iso-strict.       *)
(* A well-formed one is "YYYY-MM-DDTHH:00:00+00:00" (form "iso"); form     *)
(* "pre" is text whose first 10 characters are a date but which            *)
(* datetime.fromisoformat rejects ("2025-01-02 junk"); form "bad" is text  *)
(* neither parser accepts ("not-a-date"); form "blank" is text that is     *)
(* empty after strip().                                                    *)
(***************************************************************************)
Stamp(f, yy, mm, dd, hh) == [form |-> f, y |-> yy, m |-> mm, d |-> dd, h |-> hh]

IsoStamps ==
    { Stamp("iso", 2025, 1, 6, 10),     \* Monday,   ISO week 2025-W02
      Stamp("iso", 2025, 1, 2, 18),     \* Thursday, ISO week 2025-W01
      Stamp("iso", 2025, 1, 2, 10),
      Stamp("iso", 2024, 12, 30, 10),   \* Monday,   ISO week 2025-W01
      Stamp("iso", 2024, 12, 28, 10) }  \* Saturday, ISO week 2024-W52

PrefixStamp == Stamp("pre", 2025, 1, 2, 0)
BadStamp    == Stamp("bad", 0, 0, 0, 0)
BlankStamp  == Stamp("blank", 0, 0, 0, 0)

Stamps == IsoStamps \cup {PrefixStamp, BadStamp, BlankStamp}

\* A line of the log: "<sha>|<ad>", or a line without any "|" (pipe = FALSE).
\* sha = 0 is a sha field that is empty after strip(); the i-th commit of the
\* log has sha i (git prints every commit once).
Line(p, s, a) == [pipe |-> p, sha |-> s, ad |-> a]

LineKinds == [pipe : {TRUE}, blanksha : {FALSE}, ad : Stamps]
             \cup { [pipe |-> FALSE, blanksha |-> FALSE, ad |-> BlankStamp],
                    [pipe |-> TRUE,  blanksha |-> TRUE,
                     ad |-> Stamp("iso", 2025, 1, 6, 10)] }

MkLine(i, k) == Line(k.pipe, IF k.blanksha THEN 0 ELSE i, k.ad)

(***************************************************************************)
(* datetime: the proleptic Gregorian ordinal and isocalendar(), as         *)
(* CPython computes them for dt.isocalendar() (extractor_monthly.py:130).  *)
(***************************************************************************)
IsLeap(yy) == (yy % 4 = 0) /\ ((yy % 100 # 0) \/ (yy % 400 = 0))

DaysBeforeYear(yy) ==
    LET y1 == yy - 1 IN y1 * 365 + (y1 \div 4) - (y1 \div 100) + (y1 \div 400)

DaysInMonth(yy, mm) ==
    IF mm = 2 THEN (IF IsLeap(yy) THEN 29 ELSE 28)
    ELSE IF mm \in {4, 6, 9, 11} THEN 30 ELSE 31

RECURSIVE DaysBeforeMonth(_, _)
DaysBeforeMonth(yy, mm) ==
    IF mm = 1 THEN 0 ELSE DaysBeforeMonth(yy, mm - 1) + DaysInMonth(yy, mm - 1)

Ymd2Ord(yy, mm, dd) == DaysBeforeYear(yy) + DaysBeforeMonth(yy, mm) + dd

IsoWeek1Monday(yy) ==
    LET firstday     == Ymd2Ord(yy, 1, 1)
        firstweekday == (firstday + 6) % 7
        week1monday  == firstday - firstweekday
    IN  IF firstweekday > 3 THEN week1monday + 7 ELSE week1monday

\* isocalendar() -> <<iso_year, iso_week>>
IsoCalendar(yy, mm, dd) ==
    LET today == Ymd2Ord(yy, mm, dd)
        w1    == IsoWeek1Monday(yy)
        week  == (today - w1) \div 7
    IN  IF today < w1
        THEN <<yy - 1, ((today - IsoWeek1Monday(yy - 1)) \div 7) + 1>>
        ELSE IF week >= 52 /\ today >= IsoWeek1Monday(yy + 1)
             THEN <<yy + 1, 1>>
             ELSE <<yy, week + 1>>

(***************************************************************************)
(* Bucket keys.  A key "YYYY-MM" or "YYYY-Www" is encoded as the number    *)
(* YYYY*100 + MM (or + ww): equal numbers are equal strings, and for       *)
(* four-digit years the numeric order is the lexicographic order.  The     *)
(* first 7 characters of text that is no date ("not-a-d") are key 0.       *)
(***************************************************************************)
\* month_key = ad[:7]: no parsing at all
month_key(ad) == IF ad.form \in {"iso", "pre"} THEN ad.y * 100 + ad.m ELSE 0

\* datetime.fromisoformat(ad.replace("Z", "+00:00")) succeeds
FromIsoFormatOk(ad) == ad.form = "iso"
\* datetime.strptime(ad[:10], "%Y-%m-%d") succeeds
StrptimeOk(ad) == ad.form \in {"iso", "pre"}

\* the try/except of list_weekly_latest_commits: TRUE when strptime raises too
WeeklyParseRaises(ad) == ~FromIsoFormatOk(ad) /\ ~StrptimeOk(ad)

week_key(ad) ==
    LET ic == IsoCalendar(ad.y, ad.m, ad.d) IN ic[1] * 100 + ic[2]

BucketKey(md, ad) == IF md = "monthly" THEN month_key(ad) ELSE week_key(ad)

\* "if '|' not in line: continue" and "if not sha or not ad: continue"
LineSkipped(ln) == ~ln.pipe \/ ln.sha = 0 \/ ln.ad.form = "blank"

KeySeen(d, k) == \E i \in 1..Len(d) : d[i].key = k

\* list(latest_by_*.values())
Values(d) == [i \in 1..Len(d) |-> d[i].sha]

\* the batch part at rest, in the specifications of the other parts
BatchIdle ==
    /\ repo = <<>>
    /\ bpc = "idle"
    /\ result = <<>>
    /\ current_sha = <<>>
    /\ sha_numstat = <<>>
    /\ pass_lines = <<>>
    /\ bpos = 0
    /\ individual_calls = 0
    /\ commits_rows = <<>>
    /\ queries = <<>>

\* analyze_commit at rest, in the specifications of the other parts
AnalyzeIdle ==
    /\ variant = "idle"
    /\ tree = <<>>
    /\ files = <<>>
    /\ fidx = 0
    /\ typescript_imports = <<>>
    /\ javascript_imports = <<>>
    /\ swift_imports = <<>>
    /\ fetches = <<>>
    /\ apc = "idle"

\* a first run of analyze_commit: nothing returned before
RerunIdle ==
    /\ run_no = 1
    /\ first_run = <<>>

\* the aggregator at rest, in the specifications of the other parts
AggregateIdle ==
    /\ agg = "idle"
    /\ history = <<>>
    /\ selected_commits = <<>>
    /\ cidx = 0
    /\ results = <<>>
    /\ output = <<>>
    /\ gpc = "idle"

\* no query through an accessor, in the specifications of the other parts
QueryIdle ==
    /\ accessor = "idle"
    /\ proc = <<>>
    /\ outcome = <<>>
    /\ qpc = "idle"

\* no run over several repositories, in the specifications of the other parts
MultiIdle ==
    /\ script = "idle"
    /\ repos = <<>>
    /\ ridx = 0
    /\ attempted = <<>>
    /\ reported = <<>>
    /\ mpc = "idle"

(***************************************************************************)
(* The sampler: one action per iteration of "for line in                   *)
(* log_out.splitlines()", by the branch the iteration takes.               *)
(***************************************************************************)
Scanning == spc = "scan" /\ pos <= Len(log_out)

SkipLine ==
    /\ Scanning
    /\ LineSkipped(log_out[pos])
    /\ pos' = pos + 1
    /\ UNCHANGED <<mode, log_out, latest_by_key, spc, selected>>
    /\ UNCHANGED outside_sampler

\* weekly only: strptime raises ValueError inside the except handler; nothing
\* catches it, the function does not return.
RaiseLine ==
    /\ Scanning
    /\ ~LineSkipped(log_out[pos])
    /\ mode = "weekly"
    /\ WeeklyParseRaises(log_out[pos].ad)
    /\ spc' = "raised"
    /\ UNCHANGED <<mode, log_out, pos, latest_by_key, selected>>
    /\ UNCHANGED outside_sampler

Keyed(ln) == ~LineSkipped(ln) /\ ~(mode = "weekly" /\ WeeklyParseRaises(ln.ad))

\* mutant: the assignment is unconditional, the last commit of a bucket wins
StoreLast(d, k, s) ==
    IF KeySeen(d, k)
    THEN [i \in 1..Len(d) |-> IF d[i].key = k THEN [key |-> k, sha |-> s] ELSE d[i]]
    ELSE Append(d, [key |-> k, sha |-> s])

\* "if key not in latest_by: latest_by[key] = sha"
StoreFirst(d, k, s) == IF KeySeen(d, k) THEN d ELSE Append(d, [key |-> k, sha |-> s])

RecordLine ==
    /\ Scanning
    /\ Keyed(log_out[pos])
    /\ ~KeySeen(latest_by_key, BucketKey(mode, log_out[pos].ad))
    /\ latest_by_key' = StoreFirst(latest_by_key,
                                   BucketKey(mode, log_out[pos].ad), log_out[pos].sha)
    /\ pos' = pos + 1
    /\ UNCHANGED <<mode, log_out, spc, selected>>
    /\ UNCHANGED outside_sampler

DiscardLine ==
    /\ Scanning
    /\ Keyed(log_out[pos])
    /\ KeySeen(latest_by_key, BucketKey(mode, log_out[pos].ad))
    /\ latest_by_key' = StoreFirst(latest_by_key,
                                   BucketKey(mode, log_out[pos].ad), log_out[pos].sha)
    /\ pos' = pos + 1
    /\ UNCHANGED <<mode, log_out, spc, selected>>
    /\ UNCHANGED outside_sampler

SamplerReturn ==
    /\ spc = "scan"
    /\ pos > Len(log_out)
    /\ selected' = Values(latest_by_key)
    /\ spc' = "done"
    /\ UNCHANGED <<mode, log_out, pos, latest_by_key>>
    /\ UNCHANGED outside_sampler

InitSampler ==
    /\ mode \in {"weekly", "monthly"}
    /\ \E n \in 0..MaxLog : \E kinds \in [1..n -> LineKinds] :
           log_out = [i \in 1..n |-> MkLine(i, kinds[i])]
    /\ pos = 1
    /\ latest_by_key = <<>>
    /\ spc = "scan"
    /\ selected = <<>>
    /\ BatchIdle
    /\ AnalyzeIdle
    /\ RerunIdle
    /\ AggregateIdle
    /\ QueryIdle
    /\ MultiIdle

NextSampler == SkipLine \/ RaiseLine \/ RecordLine \/ DiscardLine \/ SamplerReturn

SpecSampler == InitSampler /\ [][NextSampler]_vars

(***************************************************************************)
(* Properties of the sampler                                               *)
(***************************************************************************)
\* the authorship instant of a well-formed timestamp, in hours
Instant(ad) == Ymd2Ord(ad.y, ad.m, ad.d) * 24 + ad.h

LogIdx == 1..Len(log_out)

\* the lines that are given a bucket and carry a well-formed timestamp
Dated(i) == Keyed(log_out[i]) /\ log_out[i].ad.form = "iso"

KeyOf(i) == BucketKey(mode, log_out[i].ad)

InSelected(s) == \E r \in 1..Len(selected) : selected[r] = s

\* C1 (as claimed) Bucket-selection correctness: when the sampler has returned,
\* the commit returned for a bucket has the maximum authorship timestamp among
\* all commits of the log that share its bucket key.
C1_RepresentativeIsNewestOfBucket ==
    spc = "done" =>
        \A i \in LogIdx : \A j \in LogIdx :
            (Dated(i) /\ Dated(j) /\ KeyOf(i) = KeyOf(j) /\ InSelected(log_out[i].sha))
                => Instant(log_out[i].ad) >= Instant(log_out[j].ad)

\* the lines whose bucket key no earlier line of the log has
FirstOfBucket(i) ==
    /\ Keyed(log_out[i])
    /\ \A j \in 1..(i - 1) : Keyed(log_out[j]) => KeyOf(j) # KeyOf(i)

FirstSeenShas ==
    LET IsFirst(i) == FirstOfBucket(i)
        firsts == SelectSeq([i \in LogIdx |-> i], IsFirst)
    IN  [r \in 1..Len(firsts) |-> log_out[firsts[r]].sha]

DistinctKeys == { KeyOf(i) : i \in { j \in LogIdx : Keyed(log_out[j]) } }

\* C2 First-seen-wins sampling: an entry of the dict, once stored, is never
\* replaced or moved while the log is scanned; and the returned list is exactly
\* the first commit of every distinct bucket key of the log, one per key, in the
\* order in which the buckets were first seen.
C2_FirstSeenWins ==
    /\ [][ /\ Len(latest_by_key') >= Len(latest_by_key)
           /\ \A r \in 1..Len(latest_by_key) : latest_by_key'[r] = latest_by_key[r]
         ]_vars
    /\ [](spc = "done" =>
            /\ selected = FirstSeenShas
            /\ Len(selected) = Cardinality(DistinctKeys))

\* a returned sample of two buckets from a log in which a later commit of an
\* already-seen bucket was discarded
C2_Witness ==
    /\ spc = "done"
    /\ Len(selected) = 2
    /\ \E i \in LogIdx : Keyed(log_out[i]) /\ ~FirstOfBucket(i)

\* C3 (as claimed) Newest-first ordering: the representatives are returned in
\* non-increasing order of their bucket, for every log.
C3_BucketsNewestFirst ==
    spc = "done" =>
        \A i \in LogIdx : \A j \in LogIdx :
            (Dated(i) /\ Dated(j) /\ FirstOfBucket(i) /\ FirstOfBucket(j) /\ i < j)
                => KeyOf(i) >= KeyOf(j)

\* neither fromisoformat nor the 10-character date prefix parses
Unparsable(ad) == ~FromIsoFormatOk(ad) /\ ~StrptimeOk(ad)

\* C4 (as claimed) Malformed timestamps never crash sampling: the sampler never
\* raises, and a commit whose timestamp cannot be parsed either way is not
\* returned.
C4_MalformedTimestampExcluded ==
    /\ spc # "raised"
    /\ spc = "done" =>
          \A i \in LogIdx :
              (~LineSkipped(log_out[i]) /\ Unparsable(log_out[i].ad))
                  => ~InSelected(log_out[i].sha)

(***************************************************************************)
(* Text.  A string is a sequence of tokens: a token is either a run of     *)
(* ordinary characters ("ann", "a.ts", "3") or one of the characters the   *)
(* parsers look at.                                                        *)
(***************************************************************************)
PIPE == "|"
TAB  == "\t"
NL   == "\n"
CR   == "\r"
SP   == " "

Whitespace == {SP, TAB, NL, CR}

\* subprocess.run(..., text=True): universal newlines, "\r" is read as "\n"
TextMode(s) == [i \in 1..Len(s) |-> IF s[i] = CR THEN NL ELSE s[i]]

\* str.split(sep): the pieces between the occurrences of a token of seps
RECURSIVE SplitAt(_, _)
SplitAt(s, seps) ==
    IF s = <<>> THEN << <<>> >>
    ELSE LET rest == SplitAt(Tail(s), seps)
         IN  IF Head(s) \in seps
             THEN << <<>> >> \o rest
             ELSE << <<Head(s)>> \o Head(rest) >> \o Tail(rest)

\* str.splitlines(): like split at the line boundaries, without the empty
\* string after a final boundary
SplitLines(s) ==
    LET pieces == SplitAt(s, {NL, CR})
    IN  IF pieces[Len(pieces)] = <<>>
        THEN SubSeq(pieces, 1, Len(pieces) - 1)
        ELSE pieces

Contains(s, tok) == \E i \in 1..Len(s) : s[i] = tok

FirstIndex(s, tok) == CHOOSE i \in 1..Len(s) : s[i] = tok /\ \A j \in 1..(i - 1) : s[j] # tok

\* str.split(sep, maxsplit)
RECURSIVE SplitMax(_, _, _)
SplitMax(s, sep, n) ==
    IF n = 0 \/ ~Contains(s, sep) THEN <<s>>
    ELSE LET i == FirstIndex(s, sep)
         IN  <<SubSeq(s, 1, i - 1)>> \o SplitMax(SubSeq(s, i + 1, Len(s)), sep, n - 1)

\* str.strip()
RECURSIVE Strip(_)
Strip(s) ==
    IF s = <<>> THEN s
    ELSE IF Head(s) \in Whitespace THEN Strip(Tail(s))
    ELSE IF s[Len(s)] \in Whitespace THEN Strip(SubSeq(s, 1, Len(s) - 1))
    ELSE s

RECURSIVE Concat(_)
Concat(ss) == IF ss = <<>> THEN <<>> ELSE Head(ss) \o Concat(Tail(ss))

\* dicts, as functions
DictPut(d, k, v) == [x \in (DOMAIN d) \cup {k} |-> IF x = k THEN v ELSE d[x]]
DictGet(d, k, default) == IF k \in DOMAIN d THEN d[k] ELSE default

\* str.isdigit() and int()
DigitVal == [x \in {"0", "1", "2", "3"} |->
                IF x = "0" THEN 0 ELSE IF x = "1" THEN 1 ELSE IF x = "2" THEN 2 ELSE 3]
IsDigit(s) == Len(s) = 1 /\ s[1] \in DOMAIN DigitVal
\* "int(adds) if adds.isdigit() else 0"
CountOf(s) == IF IsDigit(s) THEN DigitVal[s[1]] ELSE 0

(***************************************************************************)
(* The repository git answers from.  A commit has a sha, an author name, a *)
(* subject and a list of file changes; every change prints one --numstat   *)
(* line and one --name-status line.                                        *)
(***************************************************************************)
MaxCommits == 2    \* most commits of a repository

ShaAtoms == <<"sha1", "sha2", "sha3", "sha4">>

\* (author name, subject) of the sample commits
Headers ==
    { [an |-> <<"ann">>,            subject |-> <<"fix">>],
      [an |-> <<"an", CR, "n">>,    subject |-> <<"fix">>],            \* "\r" in the name
      [an |-> <<"bob">>,            subject |-> <<"a", PIPE, "b">>] }  \* "|" in the subject

NumstatLineOf(change) ==
    CASE change = "mod" -> <<"3", TAB, "1", TAB, "a.ts">>
      [] change = "bin" -> <<"-", TAB, "-", TAB, "b.png">>
      [] change = "ren" -> <<"0", TAB, "0", TAB, "o.ts => n.ts">>
      [] change = "odd" -> <<"2", TAB, "c.js">>

StatusLineOf(change) ==
    CASE change = "mod" -> <<"M", TAB, "a.ts">>
      [] change = "bin" -> <<"A", TAB, "b.png">>
      [] change = "ren" -> <<"R100", TAB, "o.ts", TAB, "n.ts">>
      [] change = "odd" -> <<"M">>

ChangeLists == { <<>>, <<"mod">>, <<"mod", "bin">>, <<"ren">>, <<"odd", "mod">> }

Commits == { [an |-> h.an, subject |-> h.subject, changes |-> cl] :
                h \in Headers, cl \in ChangeLists }

\* fmt = "%H|%an|%ae|%ad|%s"
HeaderText(sha, c) ==
    <<sha, PIPE>> \o c.an \o <<PIPE, "ann@x.org", PIPE, "2025-01-02T10:00:00+00:00", PIPE>>
        \o c.subject

LinesText(lines) == Concat([i \in 1..Len(lines) |-> lines[i] \o <<NL>>])

NumstatLines(c) == [i \in 1..Len(c.changes) |-> NumstatLineOf(c.changes[i])]
StatusLines(c)  == [i \in 1..Len(c.changes) |-> StatusLineOf(c.changes[i])]

\* a section of "git log --format=%H --numstat|--name-status": the sha, then
\* a blank line and the file lines when the commit has any
Section(sha, lines) ==
    <<sha, NL>> \o (IF lines = <<>> THEN <<>> ELSE <<NL>> \o LinesText(lines))

\* rev-list --all: the shas in traversal order
all_commits == [i \in 1..Len(repo) |-> <<ShaAtoms[i]>>]

\* the stdout of the three bulk queries and of the single-commit queries, as
\* run() returns them
header_out  == TextMode(Concat([i \in 1..Len(repo) |->
                                   HeaderText(ShaAtoms[i], repo[i]) \o <<NL>>]))
numstat_out == TextMode(Concat([i \in 1..Len(repo) |->
                                   Section(ShaAtoms[i], NumstatLines(repo[i]))]))
status_out  == TextMode(Concat([i \in 1..Len(repo) |->
                                   Section(ShaAtoms[i], StatusLines(repo[i]))]))

ShowHeaderOut(i)  == TextMode(HeaderText(ShaAtoms[i], repo[i]) \o <<NL>>)
ShowNumstatOut(i) == TextMode(LinesText(NumstatLines(repo[i])))
DiffTreeOut(i)    == TextMode(LinesText(StatusLines(repo[i])))

(***************************************************************************)
(* The single-commit parsers (the fallback path)                           *)
(***************************************************************************)
FileEntry(filename, status, adds, dels) ==
    [filename |-> filename, status |-> status, additions |-> adds,
     deletions |-> dels, changes |-> adds + dels]

\* parse_numstat, from the stdout of "git show --numstat --format= <sha>":
\* [total_adds, total_dels, per_file]
RECURSIVE NumstatFold(_, _)
NumstatFold(lines, acc) ==
    IF lines = <<>> THEN acc
    ELSE LET parts == SplitAt(Head(lines), {TAB})
         IN  IF Len(parts) # 3 THEN NumstatFold(Tail(lines), acc)
             ELSE LET adds_i == CountOf(parts[1])
                      dels_i == CountOf(parts[2])
                  IN  NumstatFold(Tail(lines),
                          [total_adds |-> acc.total_adds + adds_i,
                           total_dels |-> acc.total_dels + dels_i,
                           per_file   |-> DictPut(acc.per_file, parts[3],
                                                  <<adds_i, dels_i>>)])

parse_numstat(out) ==
    NumstatFold(SplitLines(out), [total_adds |-> 0, total_dels |-> 0, per_file |-> <<>>])

\* "if len(parts) >= 2"
NameStatusLineTaken(parts) == Len(parts) >= 2

\* parse_name_status, from the stdout of "git diff-tree --no-commit-id
\* --name-status -r <sha>" and the per_file map of parse_numstat
RECURSIVE NameStatusFold(_, _, _)
NameStatusFold(lines, add_del_map, changed) ==
    IF lines = <<>> THEN changed
    ELSE LET parts == SplitAt(Head(lines), {TAB})
         IN  IF ~NameStatusLineTaken(parts)
             THEN NameStatusFold(Tail(lines), add_del_map, changed)
             ELSE LET filename == parts[Len(parts)]
                      ad       == DictGet(add_del_map, filename, <<0, 0>>)
                  IN  NameStatusFold(Tail(lines), add_del_map,
                          Append(changed, FileEntry(filename, parts[1], ad[1], ad[2])))

parse_name_status(out, numstat_stdout) ==
    NameStatusFold(SplitLines(out), parse_numstat(numstat_stdout).per_file, <<>>)

\* commit_header, from the stdout of "git show -s --format=%H|%an|%ae|%ad|%s"
commit_header(out) ==
    LET parts == SplitMax(Strip(out), PIPE, 4)
    IN  IF Len(parts) # 5 THEN << <<>>, <<>>, <<>>, <<>> >>
        ELSE <<parts[2], parts[3], parts[4], parts[5]>>

\* a row of commits.csv (main, lines 314-327), without the repository name and
\* the columns computed from the row's own fields
Row(sha, name, email, date, subject, total_adds, total_dels, changed_files) ==
    [sha |-> sha, author_name |-> name, author_email |-> email,
     author_date |-> date, subject |-> subject,
     additions |-> total_adds, deletions |-> total_dels,
     total_changes |-> total_adds + total_dels,
     changed_files |-> changed_files]

\* the row of the i-th commit by the single-commit queries (lines 307-309)
FallbackRow(i) ==
    LET h  == commit_header(ShowHeaderOut(i))
        cf == parse_name_status(DiffTreeOut(i), ShowNumstatOut(i))
        ns == parse_numstat(ShowNumstatOut(i))
    IN  Row(all_commits[i], h[1], h[2], h[3], h[4], ns.total_adds, ns.total_dels, cf)

\* the row of a commit the batch holds (lines 290-296)
BatchRow(sha) ==
    LET data == result[sha]
    IN  Row(sha, data.author_name, data.author_email, data.author_date, data.subject,
            data.total_adds, data.total_dels, data.changed_files)

(***************************************************************************)
(* get_all_commit_data: the header pass in one step, the numstat and the   *)
(* name-status pass one line per step                                      *)
(***************************************************************************)
\* the sampler at rest, in the specifications of the other parts
SamplerIdle ==
    /\ mode = "idle"
    /\ log_out = <<>>
    /\ pos = 0
    /\ latest_by_key = <<>>
    /\ spc = "idle"
    /\ selected = <<>>

NoSha == <<>>      \* current_sha = None

\* "len(line) == 40 and all(c in '0123456789abcdef' for c in line.lower())"
IsShaLine(line) == Len(line) = 1 /\ \E i \in 1..Len(ShaAtoms) : line[1] = ShaAtoms[i]

BatchEntry(parts) ==
    [author_name |-> parts[2], author_email |-> parts[3], author_date |-> parts[4],
     subject |-> parts[5], changed_files |-> <<>>, total_adds |-> 0, total_dels |-> 0]

\* "sha = parts[0]"
HeaderKey(parts) == parts[1]

RECURSIVE HeaderFold(_, _)
HeaderFold(lines, res) ==
    IF lines = <<>> THEN res
    ELSE LET line == Head(lines)
         IN  IF Contains(line, PIPE) /\ Len(SplitAt(line, {PIPE})) >= 5
             THEN LET parts == SplitMax(line, PIPE, 4)
                  IN  HeaderFold(Tail(lines), DictPut(res, HeaderKey(parts), BatchEntry(parts)))
             ELSE HeaderFold(Tail(lines), res)

\* "if not commits: return {}"
EmptyBatch ==
    /\ bpc = "batch"
    /\ all_commits = <<>>
    /\ result' = <<>>
    /\ bpc' = "loop"
    /\ bpos' = 1
    /\ UNCHANGED <<repo, pass_lines, current_sha, sha_numstat, individual_calls, commits_rows, queries>>
    /\ UNCHANGED outside_batch

\* one of the three bulk queries exits non-zero: run() raises, and the handler
\* of the repository (lines 334-336) gives the repository up
BulkQueryFails ==
    /\ bpc = "batch"
    /\ all_commits # <<>>
    /\ bpc' = "failed"
    /\ UNCHANGED <<repo, pass_lines, result, current_sha, sha_numstat, bpos, individual_calls,
                   commits_rows, queries>>
    /\ UNCHANGED outside_batch

\* the three bulk queries and the header pass (lines 114-140)
ParseHeaders ==
    /\ bpc = "batch"
    /\ all_commits # <<>>
    /\ result' = HeaderFold(SplitLines(header_out), <<>>)
    /\ bpc' = "numstat"
    /\ bpos' = 1
    /\ pass_lines' = SplitLines(numstat_out)
    /\ current_sha' = NoSha
    /\ sha_numstat' = <<>>
    /\ UNCHANGED <<repo, individual_calls, commits_rows, queries>>
    /\ UNCHANGED outside_batch

InPass(p) == bpc = p /\ bpos <= Len(pass_lines)

\* "line = line.strip()"
PassLine == Strip(pass_lines[bpos])

\* ---- the numstat pass (lines 143-167)
NumstatTaken(line) ==
    /\ line # <<>>
    /\ ~IsShaLine(line)
    /\ current_sha # NoSha
    /\ Contains(line, TAB)
    /\ Len(SplitAt(line, {TAB})) = 3

\* mutant: a header line does not start a new section
SameSection(line) == current_sha

\* "current_sha = line"
NewSection(line) == line

NumstatHeader ==
    /\ InPass("numstat")
    /\ IsShaLine(PassLine)
    /\ current_sha' = NewSection(PassLine)
    /\ sha_numstat' = DictPut(sha_numstat, NewSection(PassLine), <<>>)
    /\ bpos' = bpos + 1
    /\ UNCHANGED <<repo, pass_lines, bpc, result, individual_calls, commits_rows, queries>>
    /\ UNCHANGED outside_batch

\* mutant: the totals are overwritten by the counts of the line
NumstatDataOverwrites ==
    /\ InPass("numstat")
    /\ NumstatTaken(PassLine)
    /\ LET parts  == SplitAt(PassLine, {TAB})
           adds_i == CountOf(parts[1])
           dels_i == CountOf(parts[2])
       IN  /\ sha_numstat' = DictPut(sha_numstat, current_sha,
                                 DictPut(sha_numstat[current_sha], parts[3],
                                         <<adds_i, dels_i>>))
           /\ result' = IF current_sha \in DOMAIN result
                        THEN [result EXCEPT ![current_sha].total_adds = adds_i,
                                            ![current_sha].total_dels = dels_i]
                        ELSE result
    /\ bpos' = bpos + 1
    /\ UNCHANGED <<repo, pass_lines, bpc, current_sha, individual_calls, commits_rows, queries>>
    /\ UNCHANGED outside_batch

NumstatData ==
    /\ InPass("numstat")
    /\ NumstatTaken(PassLine)
    /\ LET parts  == SplitAt(PassLine, {TAB})
           adds_i == CountOf(parts[1])
           dels_i == CountOf(parts[2])
       IN  /\ sha_numstat' = DictPut(sha_numstat, current_sha,
                                 DictPut(sha_numstat[current_sha], parts[3],
                                         <<adds_i, dels_i>>))
           /\ result' = IF current_sha \in DOMAIN result
                        THEN [result EXCEPT ![current_sha].total_adds = @ + adds_i,
                                            ![current_sha].total_dels = @ + dels_i]
                        ELSE result
    /\ bpos' = bpos + 1
    /\ UNCHANGED <<repo, pass_lines, bpc, current_sha, individual_calls, commits_rows, queries>>
    /\ UNCHANGED outside_batch

\* an empty line, a line before the first header, a line without a tab or
\* with another number of columns than 3
NumstatSkip ==
    /\ InPass("numstat")
    /\ ~IsShaLine(PassLine)
    /\ ~NumstatTaken(PassLine)
    /\ bpos' = bpos + 1
    /\ UNCHANGED <<repo, pass_lines, bpc, result, current_sha, sha_numstat, individual_calls,
                   commits_rows, queries>>
    /\ UNCHANGED outside_batch

NumstatEnd ==
    /\ bpc = "numstat"
    /\ bpos > Len(pass_lines)
    /\ bpc' = "status"
    /\ bpos' = 1
    /\ pass_lines' = SplitLines(status_out)
    /\ current_sha' = NoSha
    /\ UNCHANGED <<repo, result, sha_numstat, individual_calls, commits_rows, queries>>
    /\ UNCHANGED outside_batch

\* ---- the name-status pass (lines 169-192)
StatusTaken(line) ==
    /\ line # <<>>
    /\ ~IsShaLine(line)
    /\ current_sha # NoSha
    /\ current_sha \in DOMAIN result
    /\ Contains(line, TAB)
    /\ Len(SplitAt(line, {TAB})) = 2

StatusHeader ==
    /\ InPass("status")
    /\ IsShaLine(PassLine)
    /\ current_sha' = NewSection(PassLine)
    /\ bpos' = bpos + 1
    /\ UNCHANGED <<repo, pass_lines, bpc, result, sha_numstat, individual_calls, commits_rows, queries>>
    /\ UNCHANGED outside_batch

StatusData ==
    /\ InPass("status")
    /\ StatusTaken(PassLine)
    /\ LET parts == SplitAt(PassLine, {TAB})
           ad    == DictGet(DictGet(sha_numstat, current_sha, <<>>), parts[2], <<0, 0>>)
       IN  result' = [result EXCEPT ![current_sha].changed_files =
                          Append(@, FileEntry(parts[2], parts[1], ad[1], ad[2]))]
    /\ bpos' = bpos + 1
    /\ UNCHANGED <<repo, pass_lines, bpc, current_sha, sha_numstat, individual_calls, commits_rows,
                   queries>>
    /\ UNCHANGED outside_batch

StatusSkip ==
    /\ InPass("status")
    /\ ~IsShaLine(PassLine)
    /\ ~StatusTaken(PassLine)
    /\ bpos' = bpos + 1
    /\ UNCHANGED <<repo, pass_lines, bpc, result, current_sha, sha_numstat, individual_calls,
                   commits_rows, queries>>
    /\ UNCHANGED outside_batch

\* "return result", and main enters the loop over all_commits
StatusEnd ==
    /\ bpc = "status"
    /\ bpos > Len(pass_lines)
    /\ bpc' = "loop"
    /\ bpos' = 1
    /\ pass_lines' = <<>>
    /\ UNCHANGED <<repo, result, current_sha, sha_numstat, individual_calls, commits_rows,
                   queries>>
    /\ UNCHANGED outside_batch

(***************************************************************************)
(* main: the loop over all_commits (lines 284-330)                         *)
(***************************************************************************)
InLoop == bpc = "loop" /\ bpos <= Len(all_commits)

\* "data = commit_data.get(sha, {})" is empty
BatchMiss(sha) == sha \notin DOMAIN result

\* the single-commit git invocations of lines 307-309, in the order issued
\* (parse_name_status runs parse_numstat itself)
FallbackQueries(sha) ==
    << <<"show -s", sha>>, <<"diff-tree --name-status", sha>>,
       <<"show --numstat", sha>>, <<"show --numstat", sha>> >>

RowFromBatch ==
    /\ InLoop
    /\ ~BatchMiss(all_commits[bpos])
    /\ commits_rows' = Append(commits_rows, BatchRow(all_commits[bpos]))
    /\ bpos' = bpos + 1
    /\ UNCHANGED <<repo, pass_lines, bpc, result, current_sha, sha_numstat, individual_calls, queries>>
    /\ UNCHANGED outside_batch

RowFromFallback ==
    /\ InLoop
    /\ BatchMiss(all_commits[bpos])
    /\ individual_calls' = individual_calls + 1
    /\ queries' = queries \o FallbackQueries(all_commits[bpos])
    /\ commits_rows' = Append(commits_rows, FallbackRow(bpos))
    /\ bpos' = bpos + 1
    /\ UNCHANGED <<repo, pass_lines, bpc, result, current_sha, sha_numstat>>
    /\ UNCHANGED outside_batch

\* mutant: the error of a single-commit query leaves the loop
FallbackRaisesAborts ==
    /\ InLoop
    /\ BatchMiss(all_commits[bpos])
    /\ individual_calls' = individual_calls + 1
    /\ \E k \in 1..Len(FallbackQueries(all_commits[bpos])) :
           queries' = queries \o SubSeq(FallbackQueries(all_commits[bpos]), 1, k)
    /\ bpc' = "failed"
    /\ UNCHANGED <<repo, pass_lines, result, current_sha, sha_numstat, bpos, commits_rows>>
    /\ UNCHANGED outside_batch

\* the k-th single-commit query exits non-zero: run() raises, "except Exception
\* ... continue" (lines 328-330) drops the row and goes on with the next commit
FallbackRaises ==
    /\ InLoop
    /\ BatchMiss(all_commits[bpos])
    /\ individual_calls' = individual_calls + 1
    /\ \E k \in 1..Len(FallbackQueries(all_commits[bpos])) :
           queries' = queries \o SubSeq(FallbackQueries(all_commits[bpos]), 1, k)
    /\ bpos' = bpos + 1
    /\ UNCHANGED <<repo, pass_lines, bpc, result, current_sha, sha_numstat, commits_rows>>
    /\ UNCHANGED outside_batch

LoopEnd ==
    /\ bpc = "loop"
    /\ bpos > Len(all_commits)
    /\ bpc' = "done"
    /\ UNCHANGED <<repo, pass_lines, result, current_sha, sha_numstat, bpos, individual_calls,
                   commits_rows, queries>>
    /\ UNCHANGED outside_batch

InitBatch ==
    /\ SamplerIdle
    /\ AnalyzeIdle
    /\ RerunIdle
    /\ AggregateIdle
    /\ QueryIdle
    /\ MultiIdle
    /\ \E n \in 0..MaxCommits : repo \in [1..n -> Commits]
    /\ bpc = "batch"
    /\ result = <<>>
    /\ current_sha = NoSha
    /\ sha_numstat = <<>>
    /\ pass_lines = <<>>
    /\ bpos = 0
    /\ individual_calls = 0
    /\ commits_rows = <<>>
    /\ queries = <<>>

NextBatch ==
    \/ EmptyBatch \/ BulkQueryFails \/ ParseHeaders
    \/ NumstatHeader \/ NumstatData \/ NumstatSkip \/ NumstatEnd
    \/ StatusHeader \/ StatusData \/ StatusSkip \/ StatusEnd
    \/ RowFromBatch \/ RowFromFallback \/ FallbackRaises \/ LoopEnd

SpecBatch == InitBatch /\ [][NextBatch]_vars

(***************************************************************************)
(* Properties of the batch retrieval layer and of the commits loop         *)
(***************************************************************************)
BatchParsed == bpc \in {"loop", "done"}

CommitIdx == 1..Len(all_commits)

\* C5 (as claimed) Batch/fallback equivalence: for every commit the batch
\* holds, the row built from the batched data is field for field the row the
\* single-commit path builds from the same per-commit lines, renames included.
C5_BatchRowEqualsFallbackRow ==
    BatchParsed =>
        \A i \in CommitIdx :
            ~BatchMiss(all_commits[i]) => BatchRow(all_commits[i]) = FallbackRow(i)

\* the lines of a bulk output, stripped as the passes strip them
Stripped(out) == LET ls == SplitLines(out) IN [k \in 1..Len(ls) |-> Strip(ls[k])]

\* the commit whose section line k of a bulk output lies in: the last header
\* line before it (NoSha before the first header)
SectionOf(ls, k) ==
    LET hs == { j \in 1..(k - 1) : IsShaLine(ls[j]) }
    IN  IF hs = {} THEN NoSha
        ELSE ls[CHOOSE j \in hs : \A j2 \in hs : j2 <= j]

\* a file-data line of the expected number of columns
DataLine(line, ncols) ==
    ~IsShaLine(line) /\ Contains(line, TAB) /\ Len(SplitAt(line, {TAB})) = ncols

\* how many lines of a pass have been read
ReadOf(p, ls) ==
    IF bpc = p THEN bpos - 1
    ELSE IF p = "numstat" /\ bpc \in {"status", "loop", "done"} THEN Len(ls)
    ELSE IF p = "status" /\ bpc \in {"loop", "done"} THEN Len(ls)
    ELSE 0

\* the file names of the numstat lines read so far in the section of sha
\* (ls: the stripped lines of numstat_out)
NumstatNamesOf(ls, sha) ==
    { SplitAt(ls[k], {TAB})[3] :
        k \in { j \in 1..ReadOf("numstat", ls) :
                  DataLine(ls[j], 3) /\ SectionOf(ls, j) = sha } }

\* the <<status, filename>> pairs of the name-status lines read so far in the
\* section of sha, in stream order (ls: the stripped lines of status_out)
StatusPairsOf(ls, sha) ==
    LET Mine(k) == k <= ReadOf("status", ls) /\ DataLine(ls[k], 2) /\ SectionOf(ls, k) = sha
        ks == SelectSeq([k \in 1..Len(ls) |-> k], Mine)
    IN  [r \in 1..Len(ks) |-> SplitAt(ls[ks[r]], {TAB})]

\* C6 Batch section parsing: in both passes a 40-hex line starts a commit's
\* section; every well-formed file-data line read so far is attributed to the
\* commit of the section it lies in and to no other commit, and a line before
\* the first header to none.
C6_LinesBelongToTheirSection ==
    bpc \in {"numstat", "status", "loop", "done"} =>
        LET nls == Stripped(numstat_out)
            sls == Stripped(status_out)
        IN  /\ NoSha \notin DOMAIN sha_numstat
            /\ \A sha \in DOMAIN sha_numstat :
                   DOMAIN sha_numstat[sha] = NumstatNamesOf(nls, sha)
            /\ \A i \in CommitIdx :
                   all_commits[i] \notin DOMAIN sha_numstat
                       => NumstatNamesOf(nls, all_commits[i]) = {}
            /\ \A sha \in DOMAIN result :
                   LET cf == result[sha].changed_files
                   IN  [r \in 1..Len(cf) |-> <<cf[r].status, cf[r].filename>>]
                           = StatusPairsOf(sls, sha)

\* both passes are over, and two commits of the batch each hold their own,
\* different file lines
C6_Witness ==
    /\ BatchParsed
    /\ Len(all_commits) >= 2
    /\ ~BatchMiss(all_commits[1]) /\ ~BatchMiss(all_commits[2])
    /\ Len(result[all_commits[1]].changed_files) = 2
    /\ Len(result[all_commits[2]].changed_files) = 1
    /\ DOMAIN sha_numstat[all_commits[1]] # DOMAIN sha_numstat[all_commits[2]]

\* the commits among the first n of the list that the batch does not hold
MissedAmong(n) == { i \in 1..n : BatchMiss(all_commits[i]) }

IsHeaderQuery(q) == q[1] = "show -s"

\* the commits for which "git show -s" was issued, in the order issued
HeaderQueried ==
    LET hq == SelectSeq(queries, IsHeaderQuery) IN [r \in 1..Len(hq) |-> hq[r][2]]

IsMissed(sha) == BatchMiss(sha)

\* C7 Fallback policy: for every commit of the list that the batch result does
\* not hold, the loop issues the single-commit query for that commit and counts
\* it exactly once; whatever a step of the loop does, the loop stays alive and
\* advances to the next commit, so every later commit is processed too.
C7_BatchMissFallsBackAndContinues ==
    /\ [](BatchParsed =>
            /\ individual_calls = Cardinality(MissedAmong(bpos - 1))
            /\ HeaderQueried = SelectSeq(SubSeq(all_commits, 1, bpos - 1), IsMissed))
    /\ [][InLoop => (bpc' = "loop" /\ bpos' = bpos + 1)]_vars
    /\ [](bpc = "done" => bpos = Len(all_commits) + 1)

\* the loop is over; the first commit was a batch miss, counted once, and the
\* commit after it has its row
C7_Witness ==
    /\ bpc = "done"
    /\ Len(all_commits) = 2
    /\ BatchMiss(all_commits[1])
    /\ individual_calls = 1
    /\ \E r \in 1..Len(commits_rows) : commits_rows[r].sha = all_commits[2]

RowShas == [r \in 1..Len(commits_rows) |-> commits_rows[r].sha]

\* C8 (as claimed) Sampler/batch agreement: the batch holds an entry for
\* exactly the commits selected for processing, and the rows are emitted in the
\* order of the selected list, each selected commit at most once.
C8_BatchHoldsExactlyTheSelected ==
    BatchParsed =>
        /\ DOMAIN result = { all_commits[i] : i \in CommitIdx }
        /\ \E f \in [1..Len(RowShas) -> CommitIdx] :
               /\ \A r \in 1..Len(RowShas) : all_commits[f[r]] = RowShas[r]
               /\ \A r1 \in 1..Len(RowShas) : \A r2 \in 1..Len(RowShas) :
                      r1 < r2 => f[r1] < f[r2]

(***************************************************************************)
(* analyze_commit: the files of a commit, their contents and the import    *)
(* extractors of extractor_monthly.py and extractor_trilingual.py          *)
(***************************************************************************)
MaxFiles == 2

\* One statement (one line) of a source file, by the syntactic form the
\* regular expressions of the extractors tell apart.
Statement(form, binding, spec) == [form |-> form, binding |-> binding, spec |-> spec]

NamedImport == Statement("named", "a", "pkg1")            \* import { a } from "pkg1";
DefaultImport == Statement("default", "b", "pkg2")        \* import b from "pkg2"
RequireCall == Statement("require", "c", "pkg3")          \* const c = require("pkg3")
PlainCode == Statement("plain", "x", "")                  \* const x = 1;
SwiftImport == Statement("swift", "", "Foundation")       \* import Foundation
TestableImport == Statement("testable", "", "MyModule")   \* @testable import MyModule

\* The texts a file holds: a sequence of statements; the empty string is <<>>.
EmptyText == <<>>
TsText == <<NamedImport, DefaultImport, RequireCall>>
SwiftText == <<SwiftImport, TestableImport>>

\* A file of the commit as git holds it:
\*   ext      the suffix of its path after the last dot,
\*   fetch    what "git show <sha>:<path>" does: "ok", "nonzero" (exit status
\*            not 0, e.g. the path does not exist at the commit), "undecodable"
\*            (exit status 0, the bytes are not valid UTF-8),
\*   text     the content,
\*   xraise   TRUE if the extractor raises on the content (MemoryError).
Blob(ext, fetch, text, xraise) ==
    [ext |-> ext, fetch |-> fetch, text |-> text, xraise |-> xraise]

Blobs == { Blob("ts", "ok", TsText, FALSE),
           Blob("ts", "ok", <<PlainCode>>, FALSE),
           Blob("ts", "ok", EmptyText, FALSE),
           Blob("ts", "nonzero", TsText, FALSE),
           Blob("ts", "undecodable", TsText, FALSE),
           Blob("ts", "ok", TsText, TRUE),
           Blob("js", "ok", TsText, FALSE),
           Blob("swift", "ok", SwiftText, FALSE),
           Blob("swift", "ok", TsText, FALSE),
           Blob("md", "ok", TsText, FALSE),
           Blob("TS", "ok", TsText, FALSE),
           Blob("mts", "ok", TsText, FALSE) }

\* the path of the i-th file of the commit: paths of one commit are distinct
Path(i, ext) == [id |-> i, ext |-> ext]

\* str.lower() on a suffix
Lower(ext) == IF ext = "TS" THEN "ts" ELSE ext

\* ---- extractor_monthly.py ----
\* "p = p.lower(); return p.endswith('.ts') or p.endswith('.tsx')"
is_typescript_file(p) == Lower(p.ext) \in {"ts", "tsx"}
is_javascript_file(p) == Lower(p.ext) \in {"js", "jsx"}
is_swift_file(p) == Lower(p.ext) = "swift"

\* ts_import_re on one statement, the captured group:
\*   import\s+[^;]+?from\s+['"]([^'"]+)['"]   |   import\s+['"]([^'"]+)['"]
ts_import_re(st) == IF st.form \in {"named", "default"} THEN {st.spec} ELSE {}

\* require\(\s*['"]([^'"]+)['"]\s*\)
require_re(st) == IF st.form = "require" THEN {st.spec} ELSE {}

\* swift_import_re, ^\s*import\s+([A-Za-z0-9_\.]+): the word that follows an
\* "import" at the start of a line
swift_import_re(st) ==
    CASE st.form = "swift" -> {st.spec}
      [] st.form = "default" -> {st.binding}
      [] OTHER -> {}

extract_typescript_imports(text) ==
    UNION { ts_import_re(text[k]) : k \in 1..Len(text) }

extract_javascript_imports(text) ==
    UNION { ts_import_re(text[k]) \cup require_re(text[k]) : k \in 1..Len(text) }

extract_swift_imports(text) ==
    UNION { swift_import_re(text[k]) : k \in 1..Len(text) }

\* get_file_content_at_commit: run() decodes with errors="replace" and raises
\* on a non-zero exit status; every exception becomes None
get_file_content_at_commit(b) ==
    IF b.fetch = "nonzero" THEN [kind |-> "None"]
    ELSE [kind |-> "str", text |-> b.text]

\* sorted(mods): strings in code point order
SpecOrder == <<"Foundation", "MyModule", "b", "pkg1", "pkg2", "pkg3">>
sorted(mods) == LET In(x) == x \in mods IN SelectSeq(SpecOrder, In)

\* ---- extractor_trilingual.py ----
\* "file_path.endswith(('.ts', '.tsx', '.mts', '.cts'))"
tri_is_typescript_file(p) == p.ext \in {"ts", "tsx", "mts", "cts"}
tri_is_javascript_file(p) == p.ext \in {"js", "jsx", "mjs", "cjs"}
tri_is_swift_file(p) == p.ext = "swift"

\* the import_patterns of extract_typescript_imports on one statement: the
\* braces form, the single word form, the require form (the other patterns
\* match none of the statements above)
tri_typescript_patterns(st) ==
    IF st.form \in {"named", "default", "require"} THEN {st.spec} ELSE {}

tri_javascript_patterns(st) ==
    IF st.form \in {"named", "default", "require"} THEN {st.spec} ELSE {}

\* ^\s*import\s+(\w+)\s*$  and  ^\s*@testable\s+import\s+(\w+)\s*$
tri_swift_patterns(st) ==
    IF st.form \in {"swift", "testable"} THEN {st.spec} ELSE {}

tri_extract_typescript_imports(text) ==
    UNION { tri_typescript_patterns(text[k]) : k \in 1..Len(text) }

tri_extract_javascript_imports(text) ==
    UNION { tri_javascript_patterns(text[k]) : k \in 1..Len(text) }

tri_extract_swift_imports(text) ==
    UNION { tri_swift_patterns(text[k]) : k \in 1..Len(text) }

\* get_file_content_at_commit: text=True decodes strictly, check=True raises
\* CalledProcessError, the only exception that becomes None
tri_get_file_content_at_commit(b) ==
    CASE b.fetch = "nonzero" -> [kind |-> "None"]
      [] b.fetch = "undecodable" -> [kind |-> "raises"]
      [] OTHER -> [kind |-> "str", text |-> b.text]

\* list(imports): the elements of the set, in the order the set iterates
list(imports) ==
    { q \in [1..Cardinality(imports) -> imports] :
        \A i \in DOMAIN q : \A j \in DOMAIN q : i # j => q[i] # q[j] }

\* ---- the two analyzers, by variant ----
Family(v, p) ==
    IF v = "monthly"
    THEN (IF is_typescript_file(p) THEN "ts"
          ELSE IF is_javascript_file(p) THEN "js"
          ELSE IF is_swift_file(p) THEN "swift" ELSE "none")
    ELSE (IF tri_is_typescript_file(p) THEN "ts"
          ELSE IF tri_is_javascript_file(p) THEN "js"
          ELSE IF tri_is_swift_file(p) THEN "swift" ELSE "none")

Fetch(v, b) ==
    IF v = "monthly" THEN get_file_content_at_commit(b)
    ELSE tri_get_file_content_at_commit(b)

Extract(v, fam, text) ==
    IF v = "monthly"
    THEN (CASE fam = "ts" -> extract_typescript_imports(text)
            [] fam = "js" -> extract_javascript_imports(text)
            [] OTHER -> extract_swift_imports(text))
    ELSE (CASE fam = "ts" -> tri_extract_typescript_imports(text)
            [] fam = "js" -> tri_extract_javascript_imports(text)
            [] OTHER -> tri_extract_swift_imports(text))

\* the lists "sorted(mods)" / "list(imports)" can produce
ImportLists(v, mods) == IF v = "monthly" THEN {sorted(mods)} ELSE list(mods)

(***************************************************************************)
(* analyze_commit: the listing of the files, then one action per iteration *)
(* of "for fp in files" / "for file_path in commit_info['files']", by the  *)
(* branch the iteration takes.                                             *)
(***************************************************************************)
\* list_files_at_commit / get_commit_info: the paths of the commit
list_files_at_commit == [i \in 1..Len(tree) |-> Path(i, tree[i].ext)]

ListFiles ==
    /\ apc = "list"
    /\ files' = list_files_at_commit
    /\ fidx' = 1
    /\ apc' = "files"
    /\ UNCHANGED <<variant, tree, typescript_imports, javascript_imports, swift_imports,
                   fetches>>
    /\ UNCHANGED outside_analyze

\* the listing query exits non-zero: run() raises out of analyze_commit
\* (monthly); get_commit_info returns {} and analyze_commit returns {}
\* (trilingual)
ListFilesFails ==
    /\ apc = "list"
    /\ apc' = IF variant = "monthly" THEN "raised" ELSE "norecord"
    /\ UNCHANGED <<variant, tree, files, fidx, typescript_imports, javascript_imports,
                   swift_imports, fetches>>
    /\ UNCHANGED outside_analyze

InFiles == apc = "files" /\ fidx <= Len(files)

fp == files[fidx]                          \* the path of the iteration
FileFamily == Family(variant, fp)          \* the branch of the if / elif chain
content == Fetch(variant, tree[fp.id])     \* what get_file_content_at_commit does

\* the iteration leaves the three mappings as they are
NextFile ==
    /\ fidx' = fidx + 1
    /\ UNCHANGED <<variant, tree, files, typescript_imports, javascript_imports,
                   swift_imports, apc>>
    /\ UNCHANGED outside_analyze

\* mutant: the content is requested before the type guards are looked at
SkipUnsupportedFetches ==
    /\ InFiles
    /\ FileFamily = "none"
    /\ fetches' = Append(fetches, fp)
    /\ NextFile

\* none of the three type guards holds: no branch runs
SkipUnsupported ==
    /\ InFiles
    /\ FileFamily = "none"
    /\ UNCHANGED fetches
    /\ NextFile

\* content is None: "if content:" is false
FetchNone ==
    /\ InFiles
    /\ FileFamily # "none"
    /\ content.kind = "None"
    /\ fetches' = Append(fetches, fp)
    /\ NextFile

\* get_file_content_at_commit raises: "except Exception" ends the iteration
FetchRaises ==
    /\ InFiles
    /\ FileFamily # "none"
    /\ content.kind = "raises"
    /\ fetches' = Append(fetches, fp)
    /\ NextFile

\* content is the empty string: "if content:" is false
ContentEmpty ==
    /\ InFiles
    /\ FileFamily # "none"
    /\ content.kind = "str"
    /\ content.text = EmptyText
    /\ fetches' = Append(fetches, fp)
    /\ NextFile

Extracting ==
    /\ InFiles
    /\ FileFamily # "none"
    /\ content.kind = "str"
    /\ content.text # EmptyText

\* mutant: the exception leaves analyze_commit
ExtractRaisesAborts ==
    /\ Extracting
    /\ tree[fp.id].xraise
    /\ fetches' = Append(fetches, fp)
    /\ apc' = "raised"
    /\ UNCHANGED <<variant, tree, files, fidx, typescript_imports, javascript_imports,
                   swift_imports>>
    /\ UNCHANGED outside_analyze

\* the extractor raises: "except Exception" ends the iteration
ExtractRaises ==
    /\ Extracting
    /\ tree[fp.id].xraise
    /\ fetches' = Append(fetches, fp)
    /\ NextFile

mods == Extract(variant, FileFamily, content.text)

\* mutant: the key is stored although the set is empty
NoImportsStoresKey ==
    /\ Extracting
    /\ ~tree[fp.id].xraise
    /\ mods = {}
    /\ typescript_imports' = IF FileFamily = "ts"
                             THEN DictPut(typescript_imports, fp, <<>>)
                             ELSE typescript_imports
    /\ javascript_imports' = IF FileFamily = "js"
                             THEN DictPut(javascript_imports, fp, <<>>)
                             ELSE javascript_imports
    /\ swift_imports' = IF FileFamily = "swift"
                        THEN DictPut(swift_imports, fp, <<>>)
                        ELSE swift_imports
    /\ fetches' = Append(fetches, fp)
    /\ fidx' = fidx + 1
    /\ UNCHANGED <<variant, tree, files, apc>>
    /\ UNCHANGED outside_analyze

\* "if mods:" is false: no key is stored
NoImports ==
    /\ Extracting
    /\ ~tree[fp.id].xraise
    /\ mods = {}
    /\ fetches' = Append(fetches, fp)
    /\ NextFile

\* mutant: the list is stored under the path in all three mappings
StoreImportsEverywhere ==
    /\ Extracting
    /\ ~tree[fp.id].xraise
    /\ mods # {}
    /\ \E lst \in ImportLists(variant, mods) :
         /\ typescript_imports' = DictPut(typescript_imports, fp, lst)
         /\ javascript_imports' = DictPut(javascript_imports, fp, lst)
         /\ swift_imports' = DictPut(swift_imports, fp, lst)
    /\ fetches' = Append(fetches, fp)
    /\ fidx' = fidx + 1
    /\ UNCHANGED <<variant, tree, files, apc>>
    /\ UNCHANGED outside_analyze

\* "ts_imports[fp] = sorted(mods)" / "typescript_imports[file_path] = list(imports)"
StoreImports ==
    /\ Extracting
    /\ ~tree[fp.id].xraise
    /\ mods # {}
    /\ \E lst \in ImportLists(variant, mods) :
         /\ typescript_imports' = IF FileFamily = "ts"
                                  THEN DictPut(typescript_imports, fp, lst)
                                  ELSE typescript_imports
         /\ javascript_imports' = IF FileFamily = "js"
                                  THEN DictPut(javascript_imports, fp, lst)
                                  ELSE javascript_imports
         /\ swift_imports' = IF FileFamily = "swift"
                             THEN DictPut(swift_imports, fp, lst)
                             ELSE swift_imports
    /\ fetches' = Append(fetches, fp)
    /\ fidx' = fidx + 1
    /\ UNCHANGED <<variant, tree, files, apc>>
    /\ UNCHANGED outside_analyze

\* the loop is over: the record is returned
AnalyzeReturn ==
    /\ apc = "files"
    /\ fidx > Len(files)
    /\ apc' = "done"
    /\ UNCHANGED <<variant, tree, files, fidx, typescript_imports, javascript_imports,
                   swift_imports, fetches>>
    /\ UNCHANGED outside_analyze

InitAnalyze ==
    /\ SamplerIdle
    /\ BatchIdle
    /\ RerunIdle
    /\ AggregateIdle
    /\ QueryIdle
    /\ MultiIdle
    /\ variant \in {"monthly", "trilingual"}
    /\ \E n \in 0..MaxFiles : tree \in [1..n -> Blobs]
    /\ files = <<>>
    /\ fidx = 0
    /\ typescript_imports = <<>>
    /\ javascript_imports = <<>>
    /\ swift_imports = <<>>
    /\ fetches = <<>>
    /\ apc = "list"

NextAnalyze ==
    \/ ListFiles \/ ListFilesFails
    \/ SkipUnsupported \/ FetchNone \/ FetchRaises \/ ContentEmpty
    \/ ExtractRaises \/ NoImports \/ StoreImports
    \/ AnalyzeReturn

\* analyze_commit is sequential code: a step that can be taken is taken
SpecAnalyze == InitAnalyze /\ [][NextAnalyze]_vars /\ WF_vars(NextAnalyze)

(***************************************************************************)
(* Properties of analyze_commit                                            *)
(***************************************************************************)
Families == {"ts", "js", "swift"}

MappingOf(fam) ==
    CASE fam = "ts" -> typescript_imports
      [] fam = "js" -> javascript_imports
      [] OTHER -> swift_imports

Range(q) == { q[k] : k \in DOMAIN q }

FileIdx == 1..Len(tree)

PathOf(i) == Path(i, tree[i].ext)

Classified(i) == Family(variant, PathOf(i)) # "none"

\* the i-th file is classified, its content is there and not empty, and the
\* extractor of its family returns
Extracted(i) ==
    /\ Classified(i)
    /\ Fetch(variant, tree[i]).kind = "str"
    /\ tree[i].text # EmptyText
    /\ ~tree[i].xraise

\* the specifiers extraction yields for the i-th file
Yield(i) ==
    IF Extracted(i) THEN Extract(variant, Family(variant, PathOf(i)), tree[i].text)
    ELSE {}

\* C9 Omission invariant: a path is a key of one of the three mappings only
\* if extraction yielded at least one specifier for the file, and the list
\* under the key holds exactly those specifiers: never an empty list, never
\* a key for a file with no match, empty content or unavailable content.
C9_KeysOnlyForNonEmptyYield ==
    \A fam \in Families : \A p \in DOMAIN MappingOf(fam) :
        /\ MappingOf(fam)[p] # <<>>
        /\ p.id \in FileIdx
        /\ p = PathOf(p.id)
        /\ Family(variant, p) = fam
        /\ Yield(p.id) # {}
        /\ Range(MappingOf(fam)[p]) = Yield(p.id)

\* a record with a key, of a commit that also has a classified file that
\* yields nothing
C9_Witness ==
    /\ apc = "done"
    /\ \E i \in FileIdx : Classified(i) /\ Yield(i) = {}
    /\ \E fam \in Families : MappingOf(fam) # <<>>

\* the content fetch of the i-th file fails, or its extraction raises
Failing(i) ==
    /\ Classified(i)
    /\ \/ Fetch(variant, tree[i]).kind \in {"None", "raises"}
       \/ /\ Fetch(variant, tree[i]).kind = "str"
          /\ tree[i].text # EmptyText
          /\ tree[i].xraise

TimesFetched(p) == Cardinality({ k \in DOMAIN fetches : fetches[k] = p })

\* the record holds for the i-th file what the file alone determines
IncludedAsAlone(i) ==
    /\ Classified(i) => TimesFetched(PathOf(i)) = 1
    /\ \A fam \in Families :
         /\ PathOf(i) \in DOMAIN MappingOf(fam)
              <=> (Family(variant, PathOf(i)) = fam /\ Yield(i) # {})
         /\ PathOf(i) \in DOMAIN MappingOf(fam)
              => MappingOf(fam)[PathOf(i)] \in ImportLists(variant, Yield(i))

Isolated ==
    /\ apc \in {"raised", "norecord"} => files = <<>>
    /\ apc = "done" =>
         /\ Len(files) = Len(tree)
         /\ \A i \in FileIdx :
              IF Failing(i)
              THEN \A fam \in Families : PathOf(i) \notin DOMAIN MappingOf(fam)
              ELSE IncludedAsAlone(i)

\* C10 Per-file failure isolation: a file whose content fetch fails or whose
\* extraction raises contributes no key; every other file of the commit is
\* classified, fetched once, extracted and included exactly as the file alone
\* determines; once the files are listed the run never ends without a record,
\* and the record is eventually returned.
C10_FileFailureIsIsolated ==
    /\ []Isolated
    /\ (apc = "files") ~> (apc = "done")

\* a record that holds the key of a file read after a failing one
C10_Witness ==
    /\ apc = "done"
    /\ \E i \in FileIdx : \E j \in FileIdx :
         /\ i < j
         /\ Failing(i)
         /\ \E fam \in Families : PathOf(j) \in DOMAIN MappingOf(fam)

(***************************************************************************)
(* The aggregator: the selection of the commits (all-commits policy),      *)
(* analyze_commits / analyze_all_commits, and the writing of the output    *)
(* document (extractor_monthly.py __main__, extractor_trilingual.py main). *)
(***************************************************************************)
MaxHistory == 3    \* most commits of the history the aggregator is given

\* A commit of the history, by what analyze_commit meets when it runs on it:
\*   listing  "ok" | "nonzero": the exit status of the query that lists its files,
\*   nfiles   the number of paths the listing names.
HistoryCommits ==
    { [listing |-> "ok", nfiles |-> 0],
      [listing |-> "ok", nfiles |-> 1],
      [listing |-> "nonzero", nfiles |-> 0] }

\* the identifier of the i-th commit the traversal emits
ShaOf(i) == <<ShaAtoms[i]>>

\* stdout of "git rev-list --all": one identifier per line
rev_list_out == Concat([i \in 1..Len(history) |-> <<ShaAtoms[i], NL>>])

\* stdout of "git log --pretty=format:%H --reverse": identifiers separated by
\* newlines, read in text mode
RECURSIVE JoinLines(_)
JoinLines(ss) ==
    IF ss = <<>> THEN <<>>
    ELSE IF Len(ss) = 1 THEN ss[1]
    ELSE ss[1] \o <<NL>> \o JoinLines(Tail(ss))

log_reverse_out == TextMode(JoinLines([i \in 1..Len(history) |-> ShaOf(i)]))

\* mutant: the lines are neither stripped nor filtered
list_all_commits_unfiltered(out) == SplitAt(out, {NL})

\* "[ln.strip() for ln in out.splitlines() if ln.strip()]"
list_all_commits(out) ==
    LET ls == SplitLines(out)
        stripped == [k \in 1..Len(ls) |-> Strip(ls[k])]
        NotBlank(ln) == ln # <<>>
    IN  SelectSeq(stripped, NotBlank)

\* "result.stdout.strip().split('\n') if result.stdout.strip() else []"
get_all_commits(out) ==
    IF Strip(out) # <<>> THEN SplitAt(Strip(out), {NL}) ELSE <<>>

\* the all-commits policy of the analyzer that runs
AllCommits ==
    IF agg = "monthly" THEN list_all_commits(rev_list_out)
    ELSE get_all_commits(log_reverse_out)

SelectAll ==
    /\ gpc = "select"
    /\ selected_commits' = AllCommits
    /\ cidx' = 1
    /\ gpc' = "loop"
    /\ UNCHANGED <<agg, history, results, output>>
    /\ UNCHANGED outside_aggregate

\* the traversal query exits non-zero: run() raises RuntimeError out of
\* __main__ (monthly); get_all_commits raises Exception, which main reports
\* (trilingual): the run ends before the loop and before save_results
SelectFails ==
    /\ gpc = "select"
    /\ gpc' = "crashed"
    /\ UNCHANGED <<agg, history, selected_commits, cidx, results, output>>
    /\ UNCHANGED outside_aggregate

InCommits == gpc = "loop" /\ cidx <= Len(selected_commits)

\* the commit of the history that has the identifier of the iteration
CurrentCommit ==
    history[CHOOSE i \in 1..Len(history) : ShaOf(i) = selected_commits[cidx]]

\* the record analyze_commit returns for the commit
RecordOf(sha, c) == [sha |-> sha, files |-> c.nfiles]

\* mutant: the document is rewritten after every record
AppendRecordAndWrite ==
    /\ InCommits
    /\ CurrentCommit.listing = "ok"
    /\ results' = Append(results, RecordOf(selected_commits[cidx], CurrentCommit))
    /\ output' = Append(output, results')
    /\ cidx' = cidx + 1
    /\ UNCHANGED <<agg, history, selected_commits, gpc>>
    /\ UNCHANGED outside_aggregate

\* "res = self.analyze_commit(sha); results.append({...})" /
\* "if commit_data: results.append(commit_data)"
AppendRecord ==
    /\ InCommits
    /\ CurrentCommit.listing = "ok"
    /\ results' = Append(results, RecordOf(selected_commits[cidx], CurrentCommit))
    /\ cidx' = cidx + 1
    /\ UNCHANGED <<agg, history, selected_commits, output, gpc>>
    /\ UNCHANGED outside_aggregate

\* monthly: list_files_at_commit raises inside analyze_commit; analyze_commits
\* has no try, the exception leaves the loop and __main__
CommitRaises ==
    /\ InCommits
    /\ agg = "monthly"
    /\ CurrentCommit.listing = "nonzero"
    /\ gpc' = "crashed"
    /\ UNCHANGED <<agg, history, selected_commits, cidx, results, output>>
    /\ UNCHANGED outside_aggregate

\* trilingual: get_commit_info returns {}, analyze_commit returns {},
\* "if commit_data:" is false
CommitDropped ==
    /\ InCommits
    /\ agg = "trilingual"
    /\ CurrentCommit.listing = "nonzero"
    /\ cidx' = cidx + 1
    /\ UNCHANGED <<agg, history, selected_commits, results, output, gpc>>
    /\ UNCHANGED outside_aggregate

\* "return results"
AggregateReturn ==
    /\ gpc = "loop"
    /\ cidx > Len(selected_commits)
    /\ gpc' = "save"
    /\ UNCHANGED <<agg, history, selected_commits, cidx, results, output>>
    /\ UNCHANGED outside_aggregate

\* save_results: json.dump(results, f)
SaveResults ==
    /\ gpc = "save"
    /\ output' = Append(output, results)
    /\ gpc' = "done"
    /\ UNCHANGED <<agg, history, selected_commits, cidx, results>>
    /\ UNCHANGED outside_aggregate

InitAggregate ==
    /\ SamplerIdle
    /\ BatchIdle
    /\ AnalyzeIdle
    /\ RerunIdle
    /\ QueryIdle
    /\ MultiIdle
    /\ agg \in {"monthly", "trilingual"}
    /\ \E n \in 0..MaxHistory : history \in [1..n -> HistoryCommits]
    /\ selected_commits = <<>>
    /\ cidx = 0
    /\ results = <<>>
    /\ output = <<>>
    /\ gpc = "select"

NextAggregate ==
    \/ SelectAll \/ SelectFails
    \/ AppendRecord \/ CommitRaises \/ CommitDropped
    \/ AggregateReturn \/ SaveResults

SpecAggregate == InitAggregate /\ [][NextAggregate]_vars

(***************************************************************************)
(* Properties of the aggregator                                            *)
(***************************************************************************)
HistoryIdx == 1..Len(history)

\* C11 (as claimed) No single commit's failure discards the run: the run
\* ends without an output document only when the selection itself failed;
\* when it ends, the one document written holds the record of every selected
\* commit whose own processing did not fail.
C11_CommitFailureKeepsTheRun ==
    /\ gpc = "crashed" => cidx = 0
    /\ gpc = "done" =>
         /\ output = <<results>>
         /\ \A i \in HistoryIdx :
              history[i].listing = "ok"
                  => \E r \in 1..Len(results) : results[r].sha = ShaOf(i)

\* C12 (as claimed) Aggregation order: the returned sequence has exactly one
\* record per selected commit, the i-th record being that of the i-th
\* selected commit.
C12_OneRecordPerSelectedCommit ==
    gpc \in {"save", "done"} =>
        /\ Len(results) = Len(selected_commits)
        /\ \A i \in 1..Len(results) : results[i].sha = selected_commits[i]

\* C15 All-commits policy: the selected commits are the identifiers the
\* traversal emitted, each once, in the order of the traversal.
C15_AllCommitsInTraversalOrder ==
    cidx > 0 => selected_commits = [i \in HistoryIdx |-> ShaOf(i)]

\* a selection from a history of at least two commits
C15_Witness ==
    /\ cidx > 0
    /\ Len(history) >= 2
    /\ Len(selected_commits) >= 2

(***************************************************************************)
(* Two runs of analyze_commit on the same commit: the same listing, the    *)
(* same contents, the same analyzer.                                       *)
(***************************************************************************)
\* the three mappings of the record
Mappings == <<typescript_imports, javascript_imports, swift_imports>>

\* the first run has returned; the second starts on the same commit
RunAgain ==
    /\ run_no = 1
    /\ apc = "done"
    /\ first_run' = Mappings
    /\ run_no' = 2
    /\ files' = <<>>
    /\ fidx' = 0
    /\ typescript_imports' = <<>>
    /\ javascript_imports' = <<>>
    /\ swift_imports' = <<>>
    /\ fetches' = <<>>
    /\ apc' = "list"
    /\ UNCHANGED <<variant, tree>>
    /\ UNCHANGED <<sampler_vars, batch_vars, aggregate_vars, query_vars, multi_vars>>

NextRerun ==
    \/ ListFiles \/ ListFilesFails
    \/ SkipUnsupported \/ FetchNone \/ FetchRaises \/ ContentEmpty
    \/ ExtractRaises \/ NoImports \/ StoreImports
    \/ AnalyzeReturn
    \/ RunAgain

SpecRerun == InitAnalyze /\ [][NextRerun]_vars

\* C13 (as claimed) Determinism: a second run on the same commit, with the
\* same contents, returns for every file key the same specifier list in the
\* same order as the first run.
C13_SecondRunEqualsFirst ==
    (run_no = 2 /\ apc = "done") => Mappings = first_run

\* the position of a specifier in the lexicographic order
Rank(x) == CHOOSE k \in 1..Len(SpecOrder) : SpecOrder[k] = x

\* C14 (as claimed) Specifier lists are canonical: every list stored in a
\* language mapping has no duplicate and is in ascending lexicographic order.
C14_ListsSortedWithoutDuplicates ==
    \A fam \in Families : \A p \in DOMAIN MappingOf(fam) :
        LET lst == MappingOf(fam)[p]
        IN  \A i \in 1..Len(lst) : \A j \in 1..Len(lst) :
                i < j => Rank(lst[i]) < Rank(lst[j])

(***************************************************************************)
(* One version-control query through an accessor: run of                   *)
(* extractor_monthly.py, run of gh_trilingual_combined.py, get_commit_info *)
(* of extractor_trilingual.py.                                             *)
(***************************************************************************)
ReturnCodes == {0, 1, 128}

\* what the process wrote to its standard output
Stdouts ==
    { <<>>,
      <<"sha1", NL>>,
      <<"ann", PIPE, "a@x", PIPE, "fix", NL, NL, "f1.ts", NL, "f2.md", NL>>,
      <<"an", CR, "n", PIPE, "a@x", PIPE, "fix", NL, NL, "f1.ts", NL>> }

\* what the process wrote to its standard error
Stderrs ==
    { <<>>,
      <<"fatal:", SP, "bad", SP, "object", NL>>,
      <<"warning:", SP, "refname", SP, "is", SP, "ambiguous", NL>> }

Process(rc, out, err) == [returncode |-> rc, stdout |-> out, stderr |-> err]

Raised(exc, err) == [kind |-> "raised", exc |-> exc, stderr |-> err]
Returned(v) == [kind |-> "returned", value |-> v]

\* extractor_monthly.py run: "if res.returncode != 0: raise RuntimeError(...
\* STDERR: {err})", else the decoded stdout
run(p) ==
    IF p.returncode # 0 THEN Raised("RuntimeError", p.stderr)
    ELSE Returned(p.stdout)

\* gh_trilingual_combined.py run: text mode, "STDERR: {res.stderr.strip()}"
combined_run(p) ==
    IF p.returncode # 0 THEN Raised("RuntimeError", Strip(TextMode(p.stderr)))
    ELSE Returned(TextMode(p.stdout))

\* the dict get_commit_info builds from the output of git show
CommitInfo(out) ==
    LET lines == SplitAt(Strip(out), {NL})
        parts == SplitMax(lines[1], PIPE, 2)
        NotBlank(ln) == Strip(ln) # <<>>
    IN  IF Len(parts) # 3
        THEN <<>>                       \* ValueError: return {}
        ELSE [name |-> parts[1], email |-> parts[2], subject |-> parts[3],
              files |-> SelectSeq(Tail(lines), NotBlank)]

\* get_commit_info: check=True raises CalledProcessError on a non-zero exit;
\* the handler logs the stderr and returns {}
get_commit_info(p) ==
    IF p.returncode # 0 THEN Returned(<<>>)
    ELSE Returned(CommitInfo(TextMode(p.stdout)))

CallRun ==
    /\ qpc = "call"
    /\ accessor = "monthly_run"
    /\ outcome' = run(proc)
    /\ qpc' = "done"
    /\ UNCHANGED <<accessor, proc>>
    /\ UNCHANGED outside_query

CallCombinedRun ==
    /\ qpc = "call"
    /\ accessor = "combined_run"
    /\ outcome' = combined_run(proc)
    /\ qpc' = "done"
    /\ UNCHANGED <<accessor, proc>>
    /\ UNCHANGED outside_query

CallGetCommitInfo ==
    /\ qpc = "call"
    /\ accessor = "get_commit_info"
    /\ outcome' = get_commit_info(proc)
    /\ qpc' = "done"
    /\ UNCHANGED <<accessor, proc>>
    /\ UNCHANGED outside_query

InitQuery ==
    /\ SamplerIdle
    /\ BatchIdle
    /\ AnalyzeIdle
    /\ RerunIdle
    /\ AggregateIdle
    /\ MultiIdle
    /\ accessor \in {"monthly_run", "combined_run", "get_commit_info"}
    /\ proc \in { Process(rc, out, err) : rc \in ReturnCodes, out \in Stdouts, err \in Stderrs }
    /\ outcome = <<>>
    /\ qpc = "call"

NextQuery == CallRun \/ CallCombinedRun \/ CallGetCommitInfo

SpecQuery == InitQuery /\ [][NextQuery]_vars

\* C16 (as claimed) Process failure is always surfaced: a query whose process
\* exits with a non-zero status ends in a raised error that carries the
\* captured stderr text, never in a returned value.
C16_NonZeroExitIsRaised ==
    (qpc = "done" /\ proc.returncode # 0) =>
        /\ outcome.kind = "raised"
        /\ Strip(outcome.stderr) = Strip(proc.stderr)

(***************************************************************************)
(* Properties of the content fetch and of the classification               *)
(***************************************************************************)
\* C17 (as claimed) Missing file content is a value, not an exception: every
\* content request made so far returned to its caller, and returned None
\* when the query did not deliver the file.
C17_FetchReturnsNoneNeverRaises ==
    \A k \in DOMAIN fetches :
        LET got == Fetch(variant, tree[fetches[k].id])
        IN  /\ got.kind # "raises"
            /\ tree[fetches[k].id].fetch = "nonzero" => got.kind = "None"

\* C18 (as claimed) Decode resilience: a classified file whose bytes are not
\* all valid UTF-8 raises nothing, and the imports written in ASCII in it are
\* in the commit record.
C18_UndecodableBytesKeepTheImports ==
    apc = "done" =>
        \A i \in FileIdx :
            (Classified(i) /\ tree[i].fetch = "undecodable" /\ ~tree[i].xraise) =>
                LET fam == Family(variant, PathOf(i))
                    found == Extract(variant, fam, tree[i].text)
                IN  found # {} =>
                        /\ PathOf(i) \in DOMAIN MappingOf(fam)
                        /\ Range(MappingOf(fam)[PathOf(i)]) = found

\* the classification of the claim: by suffix, case-insensitive
ClaimedFamily(ext) ==
    IF Lower(ext) \in {"ts", "tsx", "mts", "cts"} THEN "ts"
    ELSE IF Lower(ext) \in {"js", "jsx", "mjs", "cjs"} THEN "js"
    ELSE IF Lower(ext) = "swift" THEN "swift"
    ELSE "none"

\* C19 (as claimed) File-type classification: every listed path is classified
\* by its suffix, compared case-insensitively, against .ts .tsx .mts .cts /
\* .js .jsx .mjs .cjs / .swift.
C19_ClassifiedBySuffixCaseInsensitive ==
    \A i \in 1..Len(files) : Family(variant, files[i]) = ClaimedFamily(files[i].ext)

\* C20 No fetch for unsupported files: every content request is for a path
\* classified as TypeScript, JavaScript or Swift, and no path is requested
\* twice.
C20_OnlyClassifiedFilesAreFetchedOnce ==
    /\ \A k \in DOMAIN fetches : Family(variant, fetches[k]) # "none"
    /\ \A k1 \in DOMAIN fetches : \A k2 \in DOMAIN fetches :
           fetches[k1] = fetches[k2] => k1 = k2
    /\ \A i \in 1..Len(files) :
           Family(variant, files[i]) = "none" => TimesFetched(files[i]) = 0

\* a finished commit with an unsupported file and a fetched one
C20_Witness ==
    /\ apc = "done"
    /\ \E i \in 1..Len(files) : Family(variant, files[i]) = "none"
    /\ fetches # <<>>

(***************************************************************************)
(* Properties of the extractors on the fixtures, and of the key sets       *)
(***************************************************************************)
\* the i-th file is read as family fam and holds the text txt, and its
\* extraction returned
ExtractedAs(i, fam, txt) ==
    /\ Family(variant, PathOf(i)) = fam
    /\ tree[i].text = txt
    /\ Extracted(i)

\* C24 (as claimed) TypeScript fixture completeness: a TypeScript file with a
\* named import from pkg1, a default import from pkg2 and a const-assigned
\* require of pkg3 has exactly pkg1, pkg2, pkg3 under its key.
C24_TypeScriptFixtureYieldsAllThree ==
    apc = "done" =>
        \A i \in FileIdx :
            ExtractedAs(i, "ts", TsText) =>
                /\ PathOf(i) \in DOMAIN typescript_imports
                /\ Range(typescript_imports[PathOf(i)]) = {"pkg1", "pkg2", "pkg3"}

\* C25 (as claimed) Swift fixture completeness: a Swift file with the lines
\* "import Foundation" and "@testable import MyModule" has exactly Foundation
\* and MyModule under its key.
C25_SwiftFixtureYieldsBoth ==
    apc = "done" =>
        \A i \in FileIdx :
            ExtractedAs(i, "swift", SwiftText) =>
                /\ PathOf(i) \in DOMAIN swift_imports
                /\ Range(swift_imports[PathOf(i)]) = {"Foundation", "MyModule"}

Listed(p) == \E k \in 1..Len(files) : files[k] = p

\* C27 Language mappings partition the classified files: every key of the
\* three mappings is a listed path, no path is a key of two mappings, and a
\* key of a mapping is classified as the language of that mapping.
C27_KeySetsPartitionClassifiedFiles ==
    /\ \A fam \in Families : \A p \in DOMAIN MappingOf(fam) :
           /\ Listed(p)
           /\ Family(variant, p) = fam
    /\ \A f1 \in Families : \A f2 \in Families :
           f1 # f2 => (DOMAIN MappingOf(f1)) \cap (DOMAIN MappingOf(f2)) = {}

\* a record with keys in two of the mappings
C27_Witness ==
    /\ apc = "done"
    /\ \E f1 \in Families : \E f2 \in Families :
         f1 # f2 /\ MappingOf(f1) # <<>> /\ MappingOf(f2) # <<>>

\* C23 Output is written once, at the end: nothing is written while commits
\* are selected or processed, nor by a run that fails on the way; a run that
\* ends has written one document, after the last selected commit, holding
\* the complete record sequence.
C23_OutputWrittenOnceAtTheEnd ==
    /\ Len(output) <= 1
    /\ gpc \in {"select", "loop", "save", "crashed"} => output = <<>>
    /\ gpc = "done" =>
         /\ output = <<results>>
         /\ cidx > Len(selected_commits)

\* a finished run whose document holds at least two records
C23_Witness ==
    /\ gpc = "done"
    /\ Len(results) >= 2
    /\ output = <<results>>

(***************************************************************************)
(* Properties of the file-data lines of the batch and of the fallback      *)
(***************************************************************************)
\* the index, in the list of commits, of the commit with this identifier
IndexOfSha(sha) == CHOOSE i \in CommitIdx : all_commits[i] = sha

HasColumns(line, ncols) == Len(SplitAt(line, {TAB})) = ncols

\* the name-status lines of the i-th commit that have two columns
TwoColumnStatusLines(i) ==
    LET Two(line) == HasColumns(line, 2) IN SelectSeq(StatusLines(repo[i]), Two)

RECURSIVE SumSeq(_)
SumSeq(q) == IF q = <<>> THEN 0 ELSE Head(q) + SumSeq(Tail(q))

\* the numstat lines of three columns in the section of sha, split in columns
\* (ls: the stripped lines of numstat_out)
NumstatRowsOf(ls, sha) ==
    LET Mine(k) == DataLine(ls[k], 3) /\ SectionOf(ls, k) = sha
        ks == SelectSeq([k \in 1..Len(ls) |-> k], Mine)
    IN  [r \in 1..Len(ks) |-> SplitAt(ls[ks[r]], {TAB})]

\* a count of a numstat line: its number, 0 when it is not a number ("-")
CountValue(field) == IF field = <<"-">> THEN 0 ELSE CountOf(field)

\* the <<additions, deletions>> of a file name among the rows, <<0, 0>> when
\* there is none
CountsOfName(rows, fname) ==
    LET hits == { r \in 1..Len(rows) : rows[r][3] = fname }
    IN  IF hits = {} THEN <<0, 0>>
        ELSE LET r == CHOOSE x \in hits : \A y \in hits : y <= x
             IN  <<CountValue(rows[r][1]), CountValue(rows[r][2])>>

\* C26 Batch totals are consistent with the per-file data: for every commit
\* of the result, total_adds and total_dels are the sums over the commit's
\* numstat lines of three columns, and every changed_files entry carries the
\* counts of the numstat line of its file name in the same commit, or 0 and
\* 0, with changes = additions + deletions.
C26_TotalsAndEntriesMatchNumstat ==
    BatchParsed =>
        LET nls == Stripped(numstat_out)
        IN  \A sha \in DOMAIN result :
                LET rows == NumstatRowsOf(nls, sha)
                    cf == result[sha].changed_files
                IN  /\ result[sha].total_adds
                         = SumSeq([r \in 1..Len(rows) |-> CountValue(rows[r][1])])
                    /\ result[sha].total_dels
                         = SumSeq([r \in 1..Len(rows) |-> CountValue(rows[r][2])])
                    /\ \A k \in 1..Len(cf) :
                           /\ cf[k].changes = cf[k].additions + cf[k].deletions
                           /\ <<cf[k].additions, cf[k].deletions>>
                                  = CountsOfName(rows, cf[k].filename)

\* a commit of the result with a counted file and a file whose counts are "-"
C26_Witness ==
    /\ BatchParsed
    /\ \E sha \in DOMAIN result :
         /\ result[sha].total_adds > 0
         /\ Len(result[sha].changed_files) = 2
         /\ \E k \in 1..2 : result[sha].changed_files[k].changes = 0

(***************************************************************************)
(* A run over the repositories of the organisation: the loop of            *)
(* dependency_extractor_wrapper.py, which starts extractor_monthly.py as a *)
(* child process per repository, and the commits loop and the dependency   *)
(* analysis loop of main of gh_trilingual_combined.py.  A repository is    *)
(* described by what its processing meets: whether it is private, whether  *)
(* its clone succeeds, whether the bulk query of its commits raises, and   *)
(* whether its dependency analysis raises.  The loops of main that only    *)
(* query the hosting service (contributors, branches, issues, comments)    *)
(* are not modelled.                                                       *)
(***************************************************************************)
MaxRepos == 2      \* most repositories of the organisation

Repository(private, clone, bulk, analysis) ==
    [private |-> private, clone |-> clone, bulk |-> bulk, analysis |-> analysis]

Repositories ==
    { Repository(pr, cl, bu, an) : pr \in BOOLEAN, cl \in {"ok", "fails"},
                                   bu \in {"ok", "raises"}, an \in {"ok", "raises"} }

Organisations == UNION { [1..n -> Repositories] : n \in 1..MaxRepos }

\* repos = [repo for repo in org.get_repos() if repo.private], as indices
\* of the enumeration
private_repos ==
    LET IsPrivate(k) == repos[k].private
    IN  SelectSeq([k \in 1..Len(repos) |-> k], IsPrivate)

\* the exit status of "python extractor_monthly.py <url> --weekly --out <f>":
\* an exception that leaves the script ends the interpreter with status 1
ChildExit(r) == IF r.clone = "fails" \/ r.analysis = "raises" THEN 1 ELSE 0

\* wrapper: "if not r.private: continue"
WrapperSkip ==
    /\ mpc = "children"
    /\ ridx <= Len(repos)
    /\ ~repos[ridx].private
    /\ ridx' = ridx + 1
    /\ UNCHANGED <<script, repos, attempted, reported, mpc>>
    /\ UNCHANGED outside_multi

\* wrapper: subprocess.check_call returns, the child exited with status 0
WrapperChildExitsZero ==
    /\ mpc = "children"
    /\ ridx <= Len(repos)
    /\ repos[ridx].private
    /\ ChildExit(repos[ridx]) = 0
    /\ attempted' = Append(attempted, <<"children", ridx>>)
    /\ ridx' = ridx + 1
    /\ UNCHANGED <<script, repos, reported, mpc>>
    /\ UNCHANGED outside_multi

\* wrapper: subprocess.check_call raises CalledProcessError, which nothing
\* catches: the script ends
WrapperChildExitsNonZero ==
    /\ mpc = "children"
    /\ ridx <= Len(repos)
    /\ repos[ridx].private
    /\ ChildExit(repos[ridx]) # 0
    /\ attempted' = Append(attempted, <<"children", ridx>>)
    /\ mpc' = "crashed"
    /\ UNCHANGED <<script, repos, ridx, reported>>
    /\ UNCHANGED outside_multi

\* wrapper: the enumeration is exhausted
WrapperEnd ==
    /\ mpc = "children"
    /\ ridx > Len(repos)
    /\ mpc' = "done"
    /\ UNCHANGED <<script, repos, ridx, attempted, reported>>
    /\ UNCHANGED outside_multi

\* main, commits loop: the clone and the bulk query succeed, the rows of the
\* repository are appended
CommitsRepoDone ==
    /\ mpc = "commits"
    /\ ridx <= Len(private_repos)
    /\ LET k == private_repos[ridx]
       IN  /\ repos[k].clone = "ok" /\ repos[k].bulk = "ok"
           /\ attempted' = Append(attempted, <<"commits", k>>)
    /\ ridx' = ridx + 1
    /\ UNCHANGED <<script, repos, reported, mpc>>
    /\ UNCHANGED outside_multi

\* main, commits loop: ensure_local_clone or get_all_commit_data raises;
\* "except Exception as e: print(failed on repo ...); continue"
CommitsRepoFails ==
    /\ mpc = "commits"
    /\ ridx <= Len(private_repos)
    /\ LET k == private_repos[ridx]
       IN  /\ repos[k].clone = "fails" \/ repos[k].bulk = "raises"
           /\ attempted' = Append(attempted, <<"commits", k>>)
           /\ reported' = Append(reported, <<"commits", k>>)
    /\ ridx' = ridx + 1
    /\ UNCHANGED <<script, repos, mpc>>
    /\ UNCHANGED outside_multi

\* main: commits.csv is written, the dependency analysis loop starts
CommitsEnd ==
    /\ mpc = "commits"
    /\ ridx > Len(private_repos)
    /\ mpc' = "deps"
    /\ ridx' = 1
    /\ UNCHANGED <<script, repos, attempted, reported>>
    /\ UNCHANGED outside_multi

\* main, dependency analysis loop: analyze_all_commits and save_results return
DepsRepoDone ==
    /\ mpc = "deps"
    /\ ridx <= Len(private_repos)
    /\ LET k == private_repos[ridx]
       IN  /\ repos[k].clone = "ok" /\ repos[k].analysis = "ok"
           /\ attempted' = Append(attempted, <<"deps", k>>)
    /\ ridx' = ridx + 1
    /\ UNCHANGED <<script, repos, reported, mpc>>
    /\ UNCHANGED outside_multi

\* main, dependency analysis loop: clone_repository or the analysis raises;
\* "except Exception as e: print(Dependency analysis failed for ...)"
DepsRepoFails ==
    /\ mpc = "deps"
    /\ ridx <= Len(private_repos)
    /\ LET k == private_repos[ridx]
       IN  /\ repos[k].clone = "fails" \/ repos[k].analysis = "raises"
           /\ attempted' = Append(attempted, <<"deps", k>>)
           /\ reported' = Append(reported, <<"deps", k>>)
    /\ ridx' = ridx + 1
    /\ UNCHANGED <<script, repos, mpc>>
    /\ UNCHANGED outside_multi

\* main returns
DepsEnd ==
    /\ mpc = "deps"
    /\ ridx > Len(private_repos)
    /\ mpc' = "done"
    /\ UNCHANGED <<script, repos, ridx, attempted, reported>>
    /\ UNCHANGED outside_multi

InitMulti ==
    /\ SamplerIdle
    /\ BatchIdle
    /\ AnalyzeIdle
    /\ RerunIdle
    /\ AggregateIdle
    /\ QueryIdle
    /\ script \in {"wrapper", "combined"}
    /\ repos \in Organisations
    /\ ridx = 1
    /\ attempted = <<>>
    /\ reported = <<>>
    /\ mpc = IF script = "wrapper" THEN "children" ELSE "commits"

NextMulti ==
    \/ WrapperSkip \/ WrapperChildExitsZero \/ WrapperChildExitsNonZero \/ WrapperEnd
    \/ CommitsRepoDone \/ CommitsRepoFails \/ CommitsEnd
    \/ DepsRepoDone \/ DepsRepoFails \/ DepsEnd

SpecMulti == InitMulti /\ [][NextMulti]_vars

(***************************************************************************)
(* Properties of the run over the repositories                             *)
(***************************************************************************)
\* the loops the script runs over the repositories
LoopsOf(sc) == IF sc = "wrapper" THEN {"children"} ELSE {"commits", "deps"}

\* the processing of the k-th repository fails entirely in this loop
FailsIn(loop, k) ==
    /\ repos[k].private
    /\ CASE loop = "children" -> ChildExit(repos[k]) # 0
         [] loop = "commits"  -> repos[k].clone = "fails" \/ repos[k].bulk = "raises"
         [] loop = "deps"     -> repos[k].clone = "fails" \/ repos[k].analysis = "raises"

Attempted(loop, k) == \E a \in 1..Len(attempted) : attempted[a] = <<loop, k>>

\* C21 (as claimed) Partial-repository isolation: when the run is over, it
\* has reached its end, and for every repository whose processing failed
\* entirely in a loop, every private repository after it in the enumeration
\* was processed by that loop.
C21_FailedRepositoryDoesNotStopTheRun ==
    mpc \in {"done", "crashed"} =>
        \A loop \in LoopsOf(script) : \A k \in 1..Len(repos) :
            (Attempted(loop, k) /\ FailsIn(loop, k)) =>
                /\ mpc = "done"
                /\ \A j \in (k+1)..Len(repos) : repos[j].private => Attempted(loop, j)

====
